---- MODULE Spec2Model ----
(***************************************************************************)
(* The notes view-state controller of notes_frontend/src/routes/index.tsx: *)
(* the UIState store, the saving/deleting signals, the handlers refresh,   *)
(* selectNote, onCreate, onSave, onDelete, onSearch, onTagClick, the input *)
(* handlers of the markup, and the REST client they call.                  *)
(*                                                                         *)
(* JavaScript runs each handler to its next await without interruption, so *)
(* one action is one such run: the start of a handler up to its remote     *)
(* call, or the continuation of a handler from the answer of its remote    *)
(* call to its next remote call or its end.  A handler suspended on a      *)
(* remote call is an element of tasks.                                     *)
(*                                                                         *)
(* Texts that the code parses (the tag buffer, timestamps) are sequences   *)
(* of one-character strings; texts it only copies (title, content, search, *)
(* error messages) are strings.  An optional value is <<>> (undefined) or  *)
(* <<v>>.                                                                  *)
(***************************************************************************)
EXTENDS Integers, Sequences, FiniteSets, Bags, TLC

VARIABLES
    db,          \* the remote collection: sequence of Note, in the remote's order
    clock,       \* number of ids/timestamps the remote has handed out
    notes,       \* state.notes: the snapshot
    loading,     \* state.loading
    error,       \* state.error: <<>> or <<message>>
    selectedId,  \* state.selectedId: <<>> or <<id>>
    editTitle,   \* state.editTitle
    editContent, \* state.editContent
    editTags,    \* state.editTags: sequence of characters
    search,      \* state.search
    activeTag,   \* state.activeTag: <<>> or <<tag>>
    saving,      \* saving.value
    deleting,    \* deleting.value
    tasks,       \* bag of handlers suspended on a remote call
    configured,  \* import.meta.env.VITE_NOTES_API_URL: <<>> or <<text>>, set at build time
    races,       \* history: handlers invoked while another was suspended
    last         \* history: the handler run that produced the current state

vars == <<db, clock, notes, loading, error, selectedId, editTitle, editContent,
          editTags, search, activeTag, saving, deleting, tasks, configured, races,
          last>>

\* The part of the view state the display layer shows as data.
view == <<notes, selectedId, editTitle, editContent, editTags>>

-----------------------------------------------------------------------------
(* Bounds *)

\* Ids and timestamps the remote hands out in one run (creates plus updates).
MaxClock == 1
\* Handlers the user invokes, in one run, while another handler is suspended.
MaxRaces == 1
\* Length of the lists the remote is given to hold when lists are enumerated.
MaxLen == 3
\* Length of the texts typed into the tags input when texts are enumerated.
MaxTagLen == 4

-----------------------------------------------------------------------------
(* Optional values and texts *)

None == <<>>
Some(x) == <<x>>

\* x || "" for an optional string: undefined and "" both give "".
OrEmpty(o) == IF o = None THEN "" ELSE o[1]

\* x || [] and x ?? [] for an optional list.
OrNil(o) == IF o = None THEN <<>> ELSE o[1]

\* A character that String.prototype.trim removes.
IsSpace(c) == c = " "

RECURSIVE TrimStart(_)
TrimStart(s) ==
    IF s # <<>> /\ IsSpace(Head(s)) THEN TrimStart(Tail(s)) ELSE s

RECURSIVE TrimEnd(_)
TrimEnd(s) ==
    IF s # <<>> /\ IsSpace(s[Len(s)]) THEN TrimEnd(SubSeq(s, 1, Len(s) - 1)) ELSE s

\* s.trim()
Trim(s) == TrimEnd(TrimStart(s))

\* s.split(","): the pieces between the commas, empty pieces included.
RECURSIVE SplitFrom(_, _)
SplitFrom(s, piece) ==
    IF s = <<>> THEN <<piece>>
    ELSE IF Head(s) = "," THEN <<piece>> \o SplitFrom(Tail(s), <<>>)
    ELSE SplitFrom(Tail(s), Append(piece, Head(s)))

Split(s) == SplitFrom(s, <<>>)

\* list.map(f)
RECURSIVE MapTrim(_)
MapTrim(ps) == IF ps = <<>> THEN <<>> ELSE <<Trim(Head(ps))>> \o MapTrim(Tail(ps))

\* list.filter(Boolean) on strings: the empty string is falsy.
RECURSIVE FilterNonEmpty(_)
FilterNonEmpty(ps) ==
    IF ps = <<>> THEN <<>>
    ELSE IF Head(ps) = <<>> THEN FilterNonEmpty(Tail(ps))
    ELSE <<Head(ps)>> \o FilterNonEmpty(Tail(ps))

\* ParseTags without the filter: empty pieces are submitted too.
ParseTagsKeepingEmpty(s) == MapTrim(Split(s))

\* state.editTags.split(",").map((s) => s.trim()).filter(Boolean)
ParseTags(s) == FilterNonEmpty(MapTrim(Split(s)))

\* tags.join(", ")
RECURSIVE JoinTags(_)
JoinTags(ts) ==
    IF ts = <<>> THEN <<>>
    ELSE IF Len(ts) = 1 THEN ts[1]
    ELSE ts[1] \o <<",", " ">> \o JoinTags(Tail(ts))

-----------------------------------------------------------------------------
(* Notes, sorting and lookup *)

\* a.updated_at || a.created_at || ""
EffectiveTs(n) ==
    IF n.updated_at # <<>> THEN n.updated_at
    ELSE IF n.created_at # <<>> THEN n.created_at
    ELSE <<>>

\* The place of a character in the collation order of localeCompare: the blank
\* before the digits, the digits before the letters.
CharRank(c) ==
    CASE c = " " -> -1
      [] c = "0" -> 0 [] c = "1" -> 1 [] c = "2" -> 2 [] c = "3" -> 3
      [] c = "4" -> 4 [] c = "5" -> 5 [] c = "6" -> 6 [] c = "7" -> 7
      [] c = "8" -> 8 [] c = "9" -> 9
      [] c = "a" -> 10 [] c = "b" -> 11 [] c = "c" -> 12

\* x.localeCompare(y) on timestamps and labels: negative, zero or positive.
RECURSIVE LocaleCompare(_, _)
LocaleCompare(x, y) ==
    IF x = <<>> /\ y = <<>> THEN 0
    ELSE IF x = <<>> THEN -1
    ELSE IF y = <<>> THEN 1
    ELSE IF CharRank(Head(x)) < CharRank(Head(y)) THEN -1
    ELSE IF CharRank(Head(x)) > CharRank(Head(y)) THEN 1
    ELSE LocaleCompare(Tail(x), Tail(y))

\* CompareNotes with the operands exchanged: ascending.
CompareNotesAscending(a, b) == LocaleCompare(EffectiveTs(a), EffectiveTs(b))

\* The comparator of refresh: bd.localeCompare(ad).
CompareNotes(a, b) == LocaleCompare(EffectiveTs(b), EffectiveTs(a))

\* Stable insertion of n into a sorted list: after every entry that does not
\* compare greater than n.
RECURSIVE InsertSorted(_, _)
InsertSorted(n, s) ==
    IF s = <<>> THEN <<n>>
    ELSE IF CompareNotes(Head(s), n) <= 0 THEN <<Head(s)>> \o InsertSorted(n, Tail(s))
    ELSE <<n>> \o s

\* Array.prototype.sort with the comparator of refresh (a stable sort).
RECURSIVE SortNotes(_)
SortNotes(s) ==
    IF s = <<>> THEN <<>>
    ELSE InsertSorted(s[Len(s)], SortNotes(SubSeq(s, 1, Len(s) - 1)))

\* list.some((n) => n.id === id)
HasId(list, id) == \E i \in 1..Len(list) : list[i].id = id

\* list.find((n) => n.id === id): <<>> or <<note>>, the first match.
Find(list, id) ==
    IF HasId(list, id)
    THEN Some(list[CHOOSE i \in 1..Len(list) :
                     /\ list[i].id = id
                     /\ \A j \in 1..(i - 1) : list[j].id # id])
    ELSE None

IdsOf(list) == {list[i].id : i \in 1..Len(list)}

\* The editor buffer loaded from a note.
BufferOf(n) ==
    [title |-> OrEmpty(n.title), content |-> OrEmpty(n.content),
     tags |-> JoinTags(OrNil(n.tags))]

EmptyBuffer == [title |-> "", content |-> "", tags |-> <<>>]

Buffer == [title |-> editTitle, content |-> editContent, tags |-> editTags]

-----------------------------------------------------------------------------
(* The remote collection behind the REST client *)

Digits == <<"1", "2", "3", "4", "5", "6", "7", "8", "9">>

\* The timestamp text the remote gives to its c-th write.
Stamp(c) == <<Digits[c]>>

\* A note that exists before the page is opened: no tags, no timestamps, no content.
Preexisting ==
    [id |-> 0, title |-> Some("T"), content |-> None, tags |-> None,
     updated_at |-> None, created_at |-> None]

\* The collections the remote may hold when the page is opened.
InitDbs == {<<>>, <<Preexisting>>}

\* What a note of the remote may look like besides its id: without timestamps and
\* tags, with created_at only ("9", "10"), with updated_at "10" before created_at
\* "9", and with a tag list that is empty, holds two labels out of order, one
\* label, or the empty label.
NoteKinds ==
    LET plain == [title |-> Some("T"), content |-> None, tags |-> None,
                  updated_at |-> None, created_at |-> None]
    IN  { plain,
          [plain EXCEPT !.created_at = <<"9">>],
          [plain EXCEPT !.created_at = <<"1", "0">>],
          [plain EXCEPT !.updated_at = <<"1", "0">>, !.created_at = <<"9">>],
          [plain EXCEPT !.tags = Some(<<>>)],
          [plain EXCEPT !.tags = Some(<< <<"b">>, <<"a">> >>)],
          [plain EXCEPT !.tags = Some(<< <<"a">> >>)],
          [plain EXCEPT !.tags = Some(<< <<>> >>)] }

\* The lists of at most MaxLen such notes, the i-th with id i.
RemoteLists ==
    UNION {{[i \in 1..n |->
               [id |-> i, title |-> f[i].title, content |-> f[i].content,
                tags |-> f[i].tags, updated_at |-> f[i].updated_at,
                created_at |-> f[i].created_at]] : f \in [1..n -> NoteKinds]} :
           n \in 0..MaxLen}

\* Whether the remote's search returns n for the query text q ("" is no query).
Matches(n, q) == q = "" \/ OrEmpty(n.title) = q

\* GET {API}/notes[?q=...]
RemoteList(q) == SelectSeq(db, LAMBDA n : Matches(n, q))

\* POST {API}/notes: the note the remote stores and returns.
RemoteCreated(data) ==
    [id |-> clock + 1, title |-> Some(data.title), content |-> Some(data.content),
     tags |-> Some(data.tags), updated_at |-> None, created_at |-> Stamp(clock + 1)]

\* PUT {API}/notes/:id: the collection with the note's editable fields replaced.
RemoteUpdated(id, data) ==
    [i \in 1..Len(db) |->
        IF db[i].id = id
        THEN [db[i] EXCEPT !.title = Some(data.title), !.content = Some(data.content),
                           !.tags = Some(data.tags), !.updated_at = Stamp(clock + 1)]
        ELSE db[i]]

\* DELETE {API}/notes/:id: the collection without the note.
RemoteDeleted(id) == SelectSeq(db, LAMBDA n : n.id # id)

\* How a request can fail: a non-success status, or the transport.
Failures == {"status", "transport"}

\* The message of the Error a failed client call throws.
FailureMessage(req, kind) ==
    IF kind = "transport" THEN "Failed to fetch"
    ELSE CASE req = "list" -> "Failed to list notes: 500"
           [] req = "create" -> "Failed to create note: 500"
           [] req = "update" -> "Failed to update note: 500"
           [] req = "delete" -> "Failed to delete note: 500"

\* The message of the TypeError that new URL throws for a text it cannot parse.
InvalidUrl == "Invalid URL"

-----------------------------------------------------------------------------
(* The base of the REST client's URLs *)

\* The fallback of getApiBase: "/api".
DefaultBase == <<"/", "a", "p", "i">>

\* getApiBase(): the configured text if it is set and not blank, untrimmed; else "/api".
GetApiBase == 
    IF configured # None /\ Len(Trim(configured[1])) > 0 THEN configured[1]
    ELSE DefaultBase

\* `${getApiBase()}/notes`
NotesUrl == GetApiBase \o <<"/", "n", "o", "t", "e", "s">>

IsLetter(c) == c \in {"a", "e", "h", "i", "n", "o", "p", "s", "t"}

\* Whether new URL(s), called without a base, parses s: once the surrounding blanks
\* are stripped, s must start with a scheme, letters followed by a colon.  A
\* relative text such as "/api/notes" makes the constructor throw a TypeError.
NewUrlParses(s) ==
    LET t == Trim(s)
    IN  \E i \in 2..Len(t) : t[i] = ":" /\ \A j \in 1..(i - 1) : IsLetter(t[j])

\* api.listNotes builds its request with new URL(`${getApiBase()}/notes`); the other
\* client calls hand the text to fetch, which resolves it against the page.
ListUrlParses == NewUrlParses(NotesUrl)

\* A configured absolute endpoint, and the values the build may be given.
AbsoluteBase == <<"h", ":", "/", "a">>
Configs == {None, Some(<<>>), Some(<<" ">>), Some(AbsoluteBase)}

-----------------------------------------------------------------------------
(* What the user can type and click *)

\* Inputs are few: a title the search text matches, the content cleared, and a
\* tag text with surrounding blanks and an empty piece.
TitleInputs == {"T"}
ContentInputs == {""}
TagInputs == {<<" ", "b", ",", ",", "a">>}
SearchInputs == {"", "T"}

\* Every text of at most MaxTagLen characters out of a letter, the blank and the
\* comma, and the text "a, b ,, c".
TagChars == {"a", " ", ","}
TagTexts ==
    UNION {[1..n -> TagChars] : n \in 0..MaxTagLen}
      \cup {<<"a", ",", " ", "b", " ", ",", ",", " ", "c">>}

\* (n.tags ?? []).includes(t)
Includes(n, t) == \E j \in 1..Len(OrNil(n.tags)) : OrNil(n.tags)[j] = t

\* filteredNotes with the filter applied to notes without tags too.
FilteredNotesKeepingUntagged ==
    IF activeTag # None /\ activeTag[1] # <<>>
    THEN SelectSeq(notes, LAMBDA n : OrNil(n.tags) = <<>> \/ Includes(n, activeTag[1]))
    ELSE notes

\* filteredNotes: the snapshot, or its notes that carry the active tag.  The test
\* if (state.activeTag) takes undefined and the empty text for "no active tag".
FilteredNotes ==
    IF activeTag # None /\ activeTag[1] # <<>>
    THEN SelectSeq(notes, LAMBDA n : Includes(n, activeTag[1]))
    ELSE notes

\* for (const n of state.notes) (n.tags ?? []).forEach(...): the labels in the
\* order in which the loop meets them.
RECURSIVE LabelsOf(_)
LabelsOf(list) ==
    IF list = <<>> THEN <<>> ELSE OrNil(Head(list).tags) \o LabelsOf(Tail(list))

\* Set.add and Array.from: each label once, at the place of its first occurrence.
RECURSIVE AddAll(_, _)
AddAll(all, ls) ==
    IF ls = <<>> THEN all
    ELSE IF \E i \in 1..Len(all) : all[i] = Head(ls) THEN AddAll(all, Tail(ls))
    ELSE AddAll(Append(all, Head(ls)), Tail(ls))

\* Stable insertion of the label l into a sorted list of labels.
RECURSIVE InsertLabel(_, _)
InsertLabel(l, ls) ==
    IF ls = <<>> THEN <<l>>
    ELSE IF LocaleCompare(Head(ls), l) <= 0 THEN <<Head(ls)>> \o InsertLabel(l, Tail(ls))
    ELSE <<l>> \o ls

\* list.sort((a, b) => a.localeCompare(b))
RECURSIVE SortLabels(_)
SortLabels(ls) ==
    IF ls = <<>> THEN <<>>
    ELSE InsertLabel(ls[Len(ls)], SortLabels(SubSeq(ls, 1, Len(ls) - 1)))

\* tags without the sort: the labels in the order of their first occurrence.
TagsUnsorted == AddAll(<<>>, LabelsOf(notes))

\* tags: the labels of the snapshot's notes, each once, sorted (the sidebar).
Tags == SortLabels(AddAll(<<>>, LabelsOf(notes)))

-----------------------------------------------------------------------------
(* Initial state: initialState, the two signals, and the useTask$ that calls
   refresh(), which has run to its list call or, when the URL of the list
   request does not parse, to its end. *)

\* The handler run that led to the current state: the handler, the remote call it
\* started or was answered from, the outcome (start, ok, a failure, or "-" for a
\* handler without remote call) and the id it acts on (<<>> or <<id>>).
Event(op, req, out, id) == [op |-> op, req |-> req, out |-> out, id |-> id]

\* A handler suspended on the remote call req: its query text (list), the id it
\* acts on (<<>> or <<id>>), the body it sent, and (history) the data shown when it was invoked.
Task(op, req, q, id, data, pre) ==
    [op |-> op, req |-> req, q |-> q, id |-> id, data |-> data, pre |-> pre]

\* The data of the display layer before the first refresh.
NoView == <<<<>>, None, "", "", <<>>>>

NoData == [title |-> "", content |-> "", tags |-> <<>>]

\* The page opened by a build whose configured endpoint is c, the remote holding
\* one of dbs.
InitWith(c, dbs) ==
    /\ configured = c
    /\ db \in dbs
    /\ clock = 0
    /\ notes = <<>>
    /\ loading = ListUrlParses
    /\ error = IF ListUrlParses THEN None ELSE Some(InvalidUrl)
    /\ selectedId = None
    /\ editTitle = ""
    /\ editContent = ""
    /\ editTags = <<>>
    /\ search = ""
    /\ activeTag = None
    /\ saving = FALSE
    /\ deleting = FALSE
    /\ races = 0
    /\ tasks = IF ListUrlParses
               THEN SetToBag({Task("refresh", "list", "", None, NoData, NoView)})
               ELSE EmptyBag
    /\ last = Event("refresh", "list", IF ListUrlParses THEN "start" ELSE "throw", None)

\* The endpoint is configured with an absolute URL.
Init == InitWith(Some(AbsoluteBase), InitDbs)

\* The endpoint is configured or not: any of Configs.
InitConfig == \E c \in Configs : InitWith(c, InitDbs)

\* The startup refresh has loaded the one note of the remote, which is selected,
\* and the user has typed one of TagTexts into the tags input.
InitTags ==
    /\ configured = Some(AbsoluteBase)
    /\ db = <<Preexisting>>
    /\ clock = 0
    /\ notes = <<Preexisting>>
    /\ loading = FALSE
    /\ error = None
    /\ selectedId = Some(Preexisting.id)
    /\ editTitle = BufferOf(Preexisting).title
    /\ editContent = BufferOf(Preexisting).content
    /\ editTags \in TagTexts
    /\ search = ""
    /\ activeTag = None
    /\ saving = FALSE
    /\ deleting = FALSE
    /\ races = 0
    /\ tasks = EmptyBag
    /\ last = Event("type", "-", "-", None)

\* The remote holds any list of RemoteLists.
InitLists == InitWith(Some(AbsoluteBase), RemoteLists)

-----------------------------------------------------------------------------
(* refresh *)

SetBuffer(b) ==
    /\ editTitle' = b.title
    /\ editContent' = b.content
    /\ editTags' = b.tags

\* ReconcileSelection without the fallback for a selected id that is gone.
ReconcileKeepingStale(sel, list) ==
    IF sel # None THEN sel
    ELSE IF Len(list) > 0 THEN Some(list[1].id)
    ELSE None

\* ReconcileSelection without the default for "nothing selected".
ReconcileWithoutDefault(sel, list) ==
    IF sel # None
    THEN IF HasId(list, sel[1]) THEN sel
         ELSE IF Len(list) > 0 THEN Some(list[1].id)
         ELSE None
    ELSE None

\* refresh, "Maintain selection if present": the selection after a list answer.
ReconcileSelection(sel, list) ==
    IF sel # None
    THEN IF HasId(list, sel[1]) THEN sel
         ELSE IF Len(list) > 0 THEN Some(list[1].id)
         ELSE None
    ELSE IF Len(list) > 0 THEN Some(list[1].id)
    ELSE None

\* refresh, "Load editor buffer for selected": the buffer after a list answer.
LoadBuffer(sel, list, buf) ==
    IF sel # None
    THEN IF Find(list, sel[1]) # None THEN BufferOf(Find(list, sel[1])[1]) ELSE buf
    ELSE EmptyBuffer

\* The snapshot, selection and buffer refresh leaves when its list call answers
\* with the remote's list.
Refreshed(list) ==
    LET sorted == SortNotes(list)
        sel == ReconcileSelection(selectedId, sorted)
    IN  [notes |-> sorted, sel |-> sel, buf |-> LoadBuffer(sel, sorted, Buffer)]

\* NotRefreshed with the catch resetting the snapshot and the selection.
NotRefreshedResetting == [notes |-> <<>>, sel |-> None, buf |-> Buffer]

\* The snapshot, selection and buffer refresh leaves when its list call fails.
NotRefreshed == [notes |-> notes, sel |-> selectedId, buf |-> Buffer]

\* What the caller of refresh leaves once refresh has returned with r: onCreate
\* selects the created note and loads it if the snapshot has it; the others
\* leave what refresh left.
Returned(t, r) ==
    IF t.op = "create"
    THEN [notes |-> r.notes, sel |-> t.id,
          buf |-> IF Find(r.notes, t.id[1]) # None
                  THEN BufferOf(Find(r.notes, t.id[1])[1]) ELSE r.buf]
    ELSE r

\* The finally of the handler t.op.
ClearBusy(t) ==
    /\ saving' = IF t.op \in {"create", "save"} THEN FALSE ELSE saving
    /\ deleting' = IF t.op = "delete" THEN FALSE ELSE deleting

\* The view (see view) that holds the snapshot, selection and buffer of f.
ViewOf(f) == <<f.notes, f.sel, f.buf.title, f.buf.content, f.buf.tags>>

Remove(t) == tasks (-) SetToBag({t})

\* refresh() called by the handler op, which has set the selection to sel and the
\* buffer to buf.  If the URL of the list request parses, refresh runs up to its
\* list call and the handler is suspended.  If not, listNotes throws before any
\* request is sent: refresh catches, and the handler runs on to its end.
CallRefresh(op, id, pre, rest, ev, sel, buf) ==
    LET t == Task(op, "list", search, id, NoData, pre)
        f == Returned(t, [notes |-> notes, sel |-> sel, buf |-> buf])
    IN  IF ListUrlParses
        THEN /\ loading' = TRUE
             /\ error' = None
             /\ tasks' = rest (+) SetToBag({t})
             /\ last' = ev
             /\ selectedId' = sel
             /\ SetBuffer(buf)
             /\ UNCHANGED <<notes, saving, deleting>>
        ELSE /\ loading' = FALSE
             /\ error' = Some(InvalidUrl)
             /\ tasks' = rest
             /\ last' = Event(op, "list", "throw", id)
             /\ notes' = f.notes
             /\ selectedId' = f.sel
             /\ SetBuffer(f.buf)
             /\ ClearBusy(t)

\* The user invokes a handler: at any time, also while others are suspended.
Admit ==
    /\ tasks = EmptyBag \/ races < MaxRaces
    /\ races' = IF tasks = EmptyBag THEN races ELSE races + 1

\* onSearch, the Search button and Enter in the search input: refresh().
OnSearch ==
    /\ Admit
    /\ CallRefresh("refresh", None, view, tasks, Event("refresh", "list", "start", None),
                   selectedId, Buffer)
    /\ UNCHANGED <<configured, db, clock, search, activeTag>>

\* ListOk with an answer dropped when the search text is no longer the one it was
\* asked for.
ListOkDroppingStale ==
    \E t \in BagToSet(tasks) :
        /\ t.req = "list"
        /\ LET f == IF t.q = search THEN Returned(t, Refreshed(RemoteList(t.q)))
                    ELSE [notes |-> notes, sel |-> selectedId, buf |-> Buffer]
           IN  /\ notes' = f.notes
               /\ selectedId' = f.sel
               /\ SetBuffer(f.buf)
        /\ ClearBusy(t)
        /\ loading' = FALSE
        /\ tasks' = Remove(t)
        /\ last' = Event(t.op, "list", "ok", t.id)
        /\ UNCHANGED <<configured, races, db, clock, error, search, activeTag>>

\* ListOk with the buffer kept when it was edited after the handler was invoked.
ListOkKeepingEdits ==
    \E t \in BagToSet(tasks) :
        /\ t.req = "list"
        /\ LET f == Returned(t, Refreshed(RemoteList(t.q)))
           IN  /\ notes' = f.notes
               /\ selectedId' = f.sel
               /\ SetBuffer(IF <<editTitle, editContent, editTags>> # <<t.pre[3], t.pre[4], t.pre[5]>>
                            THEN Buffer ELSE f.buf)
        /\ ClearBusy(t)
        /\ loading' = FALSE
        /\ tasks' = Remove(t)
        /\ last' = Event(t.op, "list", "ok", t.id)
        /\ UNCHANGED <<configured, races, db, clock, error, search, activeTag>>

\* The list call of a refresh answers with the remote's list.
ListOk ==
    \E t \in BagToSet(tasks) :
        /\ t.req = "list"
        /\ LET f == Returned(t, Refreshed(RemoteList(t.q)))
           IN  /\ notes' = f.notes
               /\ selectedId' = f.sel
               /\ SetBuffer(f.buf)
        /\ ClearBusy(t)
        /\ loading' = FALSE
        /\ tasks' = Remove(t)
        /\ last' = Event(t.op, "list", "ok", t.id)
        /\ UNCHANGED <<configured, races, db, clock, error, search, activeTag>>

\* The list call of a refresh fails.
ListFail ==
    \E t \in BagToSet(tasks), kind \in Failures :
        /\ t.req = "list"
        /\ error' = Some(FailureMessage("list", kind))
        /\ LET f == Returned(t, NotRefreshed)
           IN  /\ notes' = f.notes
               /\ selectedId' = f.sel
               /\ SetBuffer(f.buf)
        /\ ClearBusy(t)
        /\ loading' = FALSE
        /\ tasks' = Remove(t)
        /\ last' = Event(t.op, "list", kind, t.id)
        /\ UNCHANGED <<configured, races, db, clock, search, activeTag>>

-----------------------------------------------------------------------------
(* selectNote and the input handlers *)

\* selectNote(id), the click on a note card of the list.
SelectNote ==
    \E id \in IdsOf(FilteredNotes) :
        /\ Admit
        /\ selectedId' = Some(id)
        /\ SetBuffer(IF Find(notes, id) # None THEN BufferOf(Find(notes, id)[1])
                     ELSE Buffer)
        /\ last' = Event("select", "-", "-", Some(id))
        /\ UNCHANGED <<configured, db, clock, notes, loading, error, search, activeTag, saving,
                       deleting, tasks>>

\* onInput$ of the title, content and tags inputs, rendered while a note is selected.
TypeBuffer ==
    /\ Admit
    /\ selectedId # None
    /\ \/ \E x \in TitleInputs : editTitle' = x /\ UNCHANGED <<configured, editContent, editTags>>
       \/ \E x \in ContentInputs : editContent' = x /\ UNCHANGED <<configured, editTitle, editTags>>
       \/ \E x \in TagInputs : editTags' = x /\ UNCHANGED <<configured, editTitle, editContent>>
    /\ last' = Event("type", "-", "-", None)
    /\ UNCHANGED <<configured, db, clock, notes, loading, error, selectedId, search, activeTag,
                   saving, deleting, tasks>>

\* TypeSearch made reactive: every keystroke also starts a refresh.
TypeSearchRefreshing ==
    \E x \in SearchInputs :
        /\ Admit
        /\ search' = x
        /\ loading' = TRUE
        /\ error' = None
        /\ tasks' = tasks (+) SetToBag({Task("refresh", "list", x, None, NoData, view)})
        /\ last' = Event("setSearch", "-", "-", None)
        /\ UNCHANGED <<configured, db, clock, notes, selectedId, editTitle,
                       editContent, editTags, activeTag, saving, deleting>>

\* onInput$ of the search input.
TypeSearch ==
    \E x \in SearchInputs :
        /\ Admit
        /\ search' = x
        /\ last' = Event("setSearch", "-", "-", None)
        /\ UNCHANGED <<configured, db, clock, notes, loading, error, selectedId, editTitle,
                       editContent, editTags, activeTag, saving, deleting, tasks>>

\* onTagClick(t): the All pill or one of the sidebar's tags.
OnTagClick ==
    \E t \in {None} \cup {Some(Tags[i]) : i \in 1..Len(Tags)} :
        /\ Admit
        /\ activeTag' = t
        /\ last' = Event("setActiveTag", "-", "-", None)
        /\ UNCHANGED <<configured, db, clock, notes, loading, error, selectedId, editTitle,
                       editContent, editTags, search, saving, deleting, tasks>>

-----------------------------------------------------------------------------
(* onCreate *)

CreateDefaults == [title |-> "Untitled", content |-> "", tags |-> <<>>]

\* OnCreate with the error field reset when the handler starts.
OnCreateClearingError ==
    /\ Admit
    /\ clock < MaxClock
    /\ saving' = TRUE
    /\ error' = None
    /\ tasks' = tasks (+) SetToBag({Task("create", "create", "", None, CreateDefaults, view)})
    /\ last' = Event("create", "create", "start", None)
    /\ UNCHANGED <<configured, db, clock, notes, loading, selectedId, editTitle,
                   editContent, editTags, search, activeTag, deleting>>

\* onCreate up to its create call.
OnCreate ==
    /\ Admit
    /\ clock < MaxClock
    /\ saving' = TRUE
    /\ tasks' = tasks (+) SetToBag({Task("create", "create", "", None, CreateDefaults, view)})
    /\ last' = Event("create", "create", "start", None)
    /\ UNCHANGED <<configured, db, clock, notes, loading, error, selectedId, editTitle,
                   editContent, editTags, search, activeTag, deleting>>

\* CreateOk with the created note selected before refresh() is called.
CreateOkSelectingEarly ==
    \E t \in BagToSet(tasks) :
        /\ t.req = "create"
        /\ clock < MaxClock
        /\ db' = Append(db, RemoteCreated(t.data))
        /\ clock' = clock + 1
        /\ CallRefresh("create", Some(clock + 1), t.pre, Remove(t),
                       Event("create", "create", "ok", Some(clock + 1)),
                       Some(clock + 1), Buffer)
        /\ UNCHANGED <<configured, races, search, activeTag>>

\* The create call answers with the created note: onCreate goes on to refresh().
CreateOk ==
    \E t \in BagToSet(tasks) :
        /\ t.req = "create"
        /\ clock < MaxClock
        /\ db' = Append(db, RemoteCreated(t.data))
        /\ clock' = clock + 1
        /\ CallRefresh("create", Some(clock + 1), t.pre, Remove(t),
                       Event("create", "create", "ok", Some(clock + 1)),
                       selectedId, Buffer)
        /\ UNCHANGED <<configured, races, search, activeTag>>

\* CreateFail with the catch resetting the selection and the buffer.
CreateFailResetting ==
    \E t \in BagToSet(tasks), kind \in Failures :
        /\ t.req = "create"
        /\ error' = Some(FailureMessage("create", kind))
        /\ saving' = FALSE
        /\ selectedId' = None
        /\ SetBuffer(EmptyBuffer)
        /\ tasks' = Remove(t)
        /\ last' = Event("create", "create", kind, None)
        /\ UNCHANGED <<configured, races, db, clock, notes, loading, search, activeTag, deleting>>

\* The create call fails: the catch and finally of onCreate.
CreateFail ==
    \E t \in BagToSet(tasks), kind \in Failures :
        /\ t.req = "create"
        /\ error' = Some(FailureMessage("create", kind))
        /\ saving' = FALSE
        /\ tasks' = Remove(t)
        /\ last' = Event("create", "create", kind, None)
        /\ UNCHANGED <<configured, races, db, clock, notes, loading, selectedId, editTitle, editContent,
                       editTags, search, activeTag, deleting>>

-----------------------------------------------------------------------------
(* onSave *)

\* onSave with no note selected: returns at once.
OnSaveNothing ==
    /\ Admit
    /\ selectedId = None
    /\ last' = Event("save", "-", "-", None)
    /\ UNCHANGED <<configured, db, clock, notes, loading, error, selectedId, editTitle,
                   editContent, editTags, search, activeTag, saving, deleting, tasks>>

\* onSave up to its update call.
OnSave ==
    /\ Admit
    /\ selectedId # None
    /\ saving' = TRUE
    /\ tasks' = tasks (+) SetToBag({Task("save", "update", "", selectedId,
                                        [title |-> editTitle, content |-> editContent,
                                         tags |-> ParseTags(editTags)], view)})
    /\ last' = Event("save", "update", "start", selectedId)
    /\ UNCHANGED <<configured, db, clock, notes, loading, error, selectedId, editTitle,
                   editContent, editTags, search, activeTag, deleting>>

\* The update call answers with success: onSave goes on to refresh().
UpdateOk ==
    \E t \in BagToSet(tasks) :
        /\ t.req = "update"
        /\ HasId(db, t.id[1])
        /\ clock < MaxClock
        /\ db' = RemoteUpdated(t.id[1], t.data)
        /\ clock' = clock + 1
        /\ CallRefresh("save", t.id, t.pre, Remove(t),
                       Event("save", "update", "ok", t.id), selectedId, Buffer)
        /\ UNCHANGED <<configured, races, search, activeTag>>

\* UpdateFail with the catch reloading the buffer from the snapshot.
UpdateFailReverting ==
    \E t \in BagToSet(tasks), kind \in Failures :
        /\ t.req = "update"
        /\ error' = Some(FailureMessage("update", kind))
        /\ saving' = FALSE
        /\ SetBuffer(LoadBuffer(selectedId, notes, Buffer))
        /\ tasks' = Remove(t)
        /\ last' = Event("save", "update", kind, t.id)
        /\ UNCHANGED <<configured, races, db, clock, notes, loading, selectedId, search, activeTag,
                       deleting>>

\* The update call fails: the catch and finally of onSave.
UpdateFail ==
    \E t \in BagToSet(tasks), kind \in Failures :
        /\ t.req = "update"
        /\ error' = Some(FailureMessage("update", kind))
        /\ saving' = FALSE
        /\ tasks' = Remove(t)
        /\ last' = Event("save", "update", kind, t.id)
        /\ UNCHANGED <<configured, races, db, clock, notes, loading, selectedId, editTitle, editContent,
                       editTags, search, activeTag, deleting>>

-----------------------------------------------------------------------------
(* onDelete *)

\* OnDeleteNothing with the reset of onDelete done before the confirmation.
OnDeleteNothingResetting ==
    /\ Admit
    /\ selectedId' = None
    /\ SetBuffer(EmptyBuffer)
    /\ last' = Event("delete", "-", "-", None)
    /\ UNCHANGED <<configured, db, clock, notes, loading, error, search, activeTag,
                   saving, deleting, tasks>>

\* onDelete with no note selected, or with the confirmation declined.
OnDeleteNothing ==
    /\ Admit
    /\ last' = Event("delete", "-", "-", None)
    /\ UNCHANGED <<configured, db, clock, notes, loading, error, selectedId, editTitle,
                   editContent, editTags, search, activeTag, saving, deleting, tasks>>

\* onDelete, confirmed, up to its delete call.
OnDelete ==
    /\ Admit
    /\ selectedId # None
    /\ deleting' = TRUE
    /\ tasks' = tasks (+) SetToBag({Task("delete", "delete", "", selectedId, NoData, view)})
    /\ last' = Event("delete", "delete", "start", selectedId)
    /\ UNCHANGED <<configured, db, clock, notes, loading, error, selectedId, editTitle,
                   editContent, editTags, search, activeTag, saving>>

\* The delete call answers with success: onDelete resets the selection and the
\* buffer and goes on to refresh().
DeleteOk ==
    \E t \in BagToSet(tasks) :
        /\ t.req = "delete"
        /\ HasId(db, t.id[1])
        /\ db' = RemoteDeleted(t.id[1])
        /\ CallRefresh("delete", t.id, t.pre, Remove(t),
                       Event("delete", "delete", "ok", t.id), None, EmptyBuffer)
        /\ UNCHANGED <<configured, races, clock, search, activeTag>>

\* DeleteFail with the reset of the selection and the buffer done all the same.
DeleteFailResetting ==
    \E t \in BagToSet(tasks), kind \in Failures :
        /\ t.req = "delete"
        /\ error' = Some(FailureMessage("delete", kind))
        /\ deleting' = FALSE
        /\ selectedId' = None
        /\ SetBuffer(EmptyBuffer)
        /\ tasks' = Remove(t)
        /\ last' = Event("delete", "delete", kind, t.id)
        /\ UNCHANGED <<configured, races, db, clock, notes, loading, search, activeTag, saving>>

\* The delete call fails: the catch and finally of onDelete.
DeleteFail ==
    \E t \in BagToSet(tasks), kind \in Failures :
        /\ t.req = "delete"
        /\ error' = Some(FailureMessage("delete", kind))
        /\ deleting' = FALSE
        /\ tasks' = Remove(t)
        /\ last' = Event("delete", "delete", kind, t.id)
        /\ UNCHANGED <<configured, races, db, clock, notes, loading, selectedId, editTitle, editContent,
                       editTags, search, activeTag, saving>>

-----------------------------------------------------------------------------
(* The specifications *)

\* A handler's continuation after the answer of its remote call.
Answer ==
    \/ ListOk
    \/ ListFail
    \/ CreateOk
    \/ CreateFail
    \/ UpdateOk
    \/ UpdateFail
    \/ DeleteOk
    \/ DeleteFail

\* A handler invoked by the user.
Invoke ==
    \/ OnSearch
    \/ SelectNote
    \/ TypeBuffer
    \/ TypeSearch
    \/ OnCreate
    \/ OnSave
    \/ OnDelete

\* Handlers are invoked at any time, also while others are suspended (MaxRaces
\* times in a run).
Next == Invoke \/ Answer

Spec == Init /\ [][Next]_vars

\* The display layer invokes a handler only when no handler is suspended.
Idle == tasks = EmptyBag

NextSerial ==
    \/ Idle /\ OnSearch
    \/ Idle /\ SelectNote
    \/ Idle /\ TypeBuffer
    \/ Idle /\ TypeSearch
    \/ Idle /\ OnCreate
    \/ Idle /\ OnSave
    \/ Idle /\ OnDelete
    \/ Answer

SpecSerial == Init /\ [][NextSerial]_vars

\* The same, for every configuration of the endpoint.
SpecConfig == InitConfig /\ [][NextSerial]_vars

\* Every handler: those that call the remote or edit the buffer are invoked one
\* at a time; those that only set a filter or return at once are invoked at
\* any time (MaxRaces times while another handler is suspended).
NextAll ==
    \/ Idle /\ OnSearch
    \/ Idle /\ SelectNote
    \/ Idle /\ TypeBuffer
    \/ Idle /\ OnCreate
    \/ Idle /\ OnSave
    \/ Idle /\ OnDelete
    \/ TypeSearch
    \/ OnTagClick
    \/ OnSaveNothing
    \/ OnDeleteNothing
    \/ Answer

SpecAll == Init /\ [][NextAll]_vars

\* Refreshes and tag clicks over the lists the remote may return.
NextLists ==
    \/ Idle /\ OnSearch
    \/ Idle /\ OnTagClick
    \/ ListOk
    \/ ListFail

SpecLists == InitLists /\ [][NextLists]_vars

\* A second note of the remote, which the search text "T" does not match.
Other == [Preexisting EXCEPT !.id = 1, !.title = Some("Untitled")]

OverlapDbs == InitDbs \cup {<<Preexisting, Other>>}

\* The page has been opened on one of OverlapDbs and, while the startup refresh
\* is in flight, the user has typed one of SearchInputs into the search input;
\* races counts the handlers invoked from here on.
InitOverlap ==
    /\ configured = Some(AbsoluteBase)
    /\ db \in OverlapDbs
    /\ clock = 0
    /\ notes = <<>>
    /\ loading = TRUE
    /\ error = None
    /\ selectedId = None
    /\ editTitle = ""
    /\ editContent = ""
    /\ editTags = <<>>
    /\ search \in SearchInputs
    /\ activeTag = None
    /\ saving = FALSE
    /\ deleting = FALSE
    /\ races = 0
    /\ tasks = SetToBag({Task("refresh", "list", "", None, NoData, NoView)})
    /\ last = Event("setSearch", "-", "-", None)

\* Searches, selections and edits, invoked at any time, and the answers to the
\* list calls.
NextOverlap ==
    \/ OnSearch
    \/ TypeSearch
    \/ SelectNote
    \/ TypeBuffer
    \/ ListOk
    \/ ListFail

SpecOverlap == InitOverlap /\ [][NextOverlap]_vars

\* Saves of any text typed into the tags input.
NextTags ==
    \/ Idle /\ OnSave
    \/ UpdateOk
    \/ UpdateFail
    \/ ListOk
    \/ ListFail

SpecTags == InitTags /\ [][NextTags]_vars

-----------------------------------------------------------------------------
(* Vocabulary of the properties *)

\* The step ends the handler t: its last remote call is answered.
Ends(t) == tasks' = Remove(t)

\* The state was produced by the answer ev.out of the call ev.req.
ListAnswered(ev) == ev.req = "list" /\ ev.out # "start"
Failed(ev) == ev.out \in Failures

\* The buffer shows the selected note of the snapshot, or nothing.
BufferShowsSelection ==
    IF selectedId = None THEN Buffer = EmptyBuffer
    ELSE /\ HasId(notes, selectedId[1])
         /\ Buffer = BufferOf(Find(notes, selectedId[1])[1])

-----------------------------------------------------------------------------
(* C1 *)

\* C1: every step in which the list call of a refresh() succeeds (refresh on its
\* own, or the one inside save/delete; onCreate selects again in the same run)
\* reconciles the selection with the new snapshot: a selected id that the new
\* snapshot has stays selected; otherwise the first entry of the sorted
\* snapshot is selected, or nothing when the snapshot is empty.  So afterwards
\* nothing is selected exactly when the snapshot is empty, and a selected id
\* names a note of the snapshot.
C1_SelectionReconciled ==
    [][(last'.req = "list" /\ last'.out = "ok" /\ last'.op # "create") =>
          /\ (selectedId # None /\ HasId(notes', selectedId[1])) => selectedId' = selectedId
          /\ ((selectedId = None \/ ~HasId(notes', selectedId[1])) /\ notes' # <<>>)
                => selectedId' = Some(notes'[1].id)
          /\ notes' = <<>> => selectedId' = None
          /\ (selectedId' = None) <=> (notes' = <<>>)
          /\ selectedId' # None => HasId(notes', selectedId'[1])]_vars

\* A refresh found the selected id gone and fell back to the first entry: the
\* search text excludes the note that is selected, and the snapshot is not empty.
C1_Witness ==
    /\ last = Event("refresh", "list", "ok", None)
    /\ notes # <<>>
    /\ selectedId = Some(notes[1].id)
    /\ \E i \in 1..Len(db) : ~Matches(db[i], search)

-----------------------------------------------------------------------------
(* C4 *)

\* C4: when the list call of a refresh() fails (status or transport), the snapshot,
\* the selection and the buffer are what they were when refresh() was invoked, the
\* error field holds the failure's message and loading is false; loading is false
\* after a successful refresh too.
C4_FailedRefreshKeepsView ==
    [][\A t \in BagToSet(tasks) :
          (Ends(t) /\ t.op = "refresh") =>
              /\ loading' = FALSE
              /\ Failed(last') =>
                    /\ view' = t.pre
                    /\ view' = view
                    /\ error' = Some(FailureMessage("list", last'.out))]_vars

\* A refresh failed while a note was selected and a snapshot was there to lose.
C4_Witness ==
    /\ last.op = "refresh" /\ last.req = "list" /\ Failed(last)
    /\ notes # <<>>
    /\ selectedId # None
    /\ error # None
    /\ ~loading

-----------------------------------------------------------------------------
(* C5 *)

\* C5: when the update call of save() fails, the snapshot and the selection are
\* unchanged, the buffer is left as typed, the error field holds the failure's
\* message, saving is false, no list request is issued and the handler ends.
C5_FailedSaveKeepsDraft ==
    [][\A t \in BagToSet(tasks) :
          (t.req = "update" /\ last'.req = "update" /\ Failed(last')) =>
              /\ view' = view
              /\ view' = t.pre
              /\ error' = Some(FailureMessage("update", last'.out))
              /\ saving' = FALSE
              /\ Ends(t)
              /\ \A u \in BagToSet(tasks') : u.req # "list"]_vars

\* A save failed while the buffer held a draft that differs from the snapshot.
C5_Witness ==
    /\ last.op = "save" /\ last.req = "update" /\ Failed(last)
    /\ selectedId # None
    /\ HasId(notes, selectedId[1])
    /\ Buffer # BufferOf(Find(notes, selectedId[1])[1])
    /\ tasks = EmptyBag
    /\ ~saving

-----------------------------------------------------------------------------
(* C2 *)

\* C2: right after a change of the selection (select, create, delete, a refresh's
\* reconciliation) and right after a successful refresh, the buffer equals the
\* fields of the selected note in the snapshot, or is empty when nothing is
\* selected; for every outcome of the refresh inside create().
C2_BufferShowsSelection ==
    (\/ last.op = "select"
     \/ last.req = "list" /\ last.out = "ok"
     \/ last.op = "create" /\ ListAnswered(last)
     \/ last.op = "delete" /\ last.req = "delete" /\ last.out = "ok")
        => BufferShowsSelection

-----------------------------------------------------------------------------
(* C3 *)

\* C3, as claimed: every operation that ends with a failure recorded, of its own
\* remote call or of the list call of the refresh it performs afterwards, leaves
\* the snapshot, the selection and the buffer as they were when it was invoked.
C3_FailedOperationKeepsView ==
    [][\A t \in BagToSet(tasks) : (Ends(t) /\ Failed(last')) => view' = t.pre]_vars

\* C3, amended: an operation that ends with a failure recorded leaves the snapshot,
\* the selection and the buffer as they were when it was invoked, and changes
\* nothing but the error field and the loading/busy flags, unless the failure is
\* of the list call after a successful create call (then the created id is
\* selected, snapshot and buffer as before) or after a successful delete call
\* (then the selection and the buffer are cleared, snapshot as before).
C3_OwnCallFailureKeepsView ==
    [][\A t \in BagToSet(tasks) :
          (Ends(t) /\ Failed(last')) =>
              /\ ~(t.req = "list" /\ t.op \in {"create", "delete"}) => view' = t.pre
              /\ (t.req = "list" /\ t.op = "create") =>
                    view' = <<t.pre[1], t.id, t.pre[3], t.pre[4], t.pre[5]>>
              /\ (t.req = "list" /\ t.op = "delete") =>
                    view' = <<t.pre[1], None, "", "", <<>>>>
              /\ error' = Some(FailureMessage(t.req, last'.out))
              /\ UNCHANGED <<search, activeTag>>]_vars

\* A create whose create call failed while a note was selected.
C3_Witness ==
    /\ last.op = "create" /\ last.req = "create" /\ Failed(last)
    /\ selectedId # None
    /\ notes # <<>>
    /\ error # None

-----------------------------------------------------------------------------
(* C6 *)

\* C6: after a create() whose create call succeeded, whatever the selection, the
\* buffer and the search text were, the id the remote assigned is selected, that
\* note is in the snapshot and the buffer holds its fields; when the remote held
\* nothing before, the snapshot is exactly that note.
C6_CreatedNoteSelected ==
    (last.op = "create" /\ ListAnswered(last)) =>
        /\ selectedId = last.id
        /\ HasId(notes, last.id[1])
        /\ Buffer = BufferOf(Find(notes, last.id[1])[1])
        /\ Len(db) = 1 => Len(notes) = 1

-----------------------------------------------------------------------------
(* C7 *)

\* C7: after a confirmed delete() whose delete call and follow-up refresh both
\* succeeded, the deleted id is neither in the snapshot nor selected; with an
\* empty snapshot nothing is selected and the buffer is empty, otherwise the first
\* snapshot entry is selected and the buffer holds its fields.
C7_DeletedNoteGone ==
    (last.op = "delete" /\ last.req = "list" /\ last.out = "ok") =>
        /\ ~HasId(notes, last.id[1])
        /\ selectedId # last.id
        /\ IF notes = <<>>
           THEN selectedId = None /\ Buffer = EmptyBuffer
           ELSE selectedId = Some(notes[1].id) /\ Buffer = BufferOf(notes[1])

\* A delete succeeded and its refresh found another note to select.
C7_Witness ==
    /\ last.op = "delete" /\ last.req = "list" /\ last.out = "ok"
    /\ notes # <<>>
    /\ selectedId = Some(notes[1].id)

-----------------------------------------------------------------------------
(* C8 *)

\* C8, as claimed: once the error field holds a message, only the success of an
\* operation's call or a later failure changes it; no handler clears it when it
\* merely starts.
C8_ErrorKeptUntilSuccess ==
    [][(error # None /\ error' # error) => (Failed(last') \/ last'.out = "ok")]_vars

\* C8, amended: the error field changes only when refresh() starts, called
\* directly or after the successful call of create/save/delete, which clears it
\* before the list call is issued, and when a call fails, which stores that
\* failure's message.  create, save and delete do not touch it when they start.
C8_ErrorClearedByRefreshStart ==
    [][/\ (last'.req = "list" /\ last'.out = "start") => error' = None
       /\ (last'.req \in {"create", "update", "delete"} /\ last'.out = "ok")
             => error' = None
       /\ Failed(last') => error' = Some(FailureMessage(last'.req, last'.out))
       /\ ~(\/ last'.req = "list" /\ last'.out = "start"
            \/ last'.req \in {"create", "update", "delete"} /\ last'.out = "ok"
            \/ Failed(last'))
             => error' = error]_vars

\* An earlier failure's message is still shown while a create, save or delete
\* that started after it is suspended on its own call.
C8_Witness ==
    /\ error # None
    /\ \E t \in BagToSet(tasks) : t.req # "list"
    /\ last.out = "start"

-----------------------------------------------------------------------------
(* C9 *)

SelectStep == last'.op = "select"
CreateReturned == last'.op = "create" /\ ListAnswered(last')
ListOkStep == last'.req = "list" /\ last'.out = "ok"
DeleteOkStep == last'.op = "delete" /\ last'.req = "delete" /\ last'.out = "ok"

\* The transitions into a selection, and those a refresh makes between selections.
SelectionGained ==
    /\ (selectedId = None /\ selectedId' # None) =>
          \/ SelectStep
          \/ CreateReturned
          \/ ListOkStep /\ notes' # <<>> /\ selectedId' = Some(notes'[1].id)
    /\ (ListOkStep /\ ~CreateReturned /\ selectedId # None /\ selectedId' # None
          /\ selectedId' # selectedId) =>
          /\ ~HasId(notes', selectedId[1])
          /\ selectedId' = Some(notes'[1].id)

\* C9, as claimed: under every interleaving the selection changes only by the listed
\* transitions; it goes from Selected(id) to NoSelection only on the successful
\* delete of that same id or on a refresh that produces an empty snapshot.
C9_SelectionTransitions ==
    [][/\ SelectionGained
       /\ (selectedId # None /\ selectedId' = None) =>
             \/ DeleteOkStep /\ last'.id = selectedId
             \/ ListOkStep /\ notes' = <<>>]_vars

\* C9, amended: as claimed, except that Selected(id) goes to NoSelection on the
\* success of any delete call: the handler clears whatever is selected when the
\* answer arrives, which is another id when one was selected meanwhile.
C9_SelectionTransitionsRaced ==
    [][/\ SelectionGained
       /\ (selectedId # None /\ selectedId' = None) =>
             \/ DeleteOkStep
             \/ ListOkStep /\ notes' = <<>>]_vars

\* A delete call succeeded after another handler had been invoked meanwhile, and
\* the selection is cleared while the snapshot still shows the deleted note.
C9_Witness ==
    /\ last.op = "delete" /\ last.req = "delete" /\ last.out = "ok"
    /\ races > 0
    /\ selectedId = None
    /\ HasId(notes, last.id[1])

-----------------------------------------------------------------------------
(* C10 *)

\* The view the handler t leaves if its list call is answered with the remote's list.
FinalView(t) == ViewOf(Returned(t, Refreshed(RemoteList(t.q))))

\* C10, as claimed: while a handler is suspended on a remote call, the display layer
\* reads either the data from before the operation or the data of its result.
C10_AtomicOperations ==
    \A t \in BagToSet(tasks) :
        \/ view = t.pre
        \/ t.req = "list" /\ view = FinalView(t)

\* C10, amended: while a handler is suspended on a remote call, the display layer
\* reads the data from before the operation, except for delete(): suspended on the
\* list call of its refresh, it shows the old snapshot with the selection and the
\* buffer already cleared.
C10_OnlyDeleteExposesPartialState ==
    \A t \in BagToSet(tasks) :
        IF t.op = "delete" /\ t.req = "list"
        THEN view = <<t.pre[1], None, "", "", <<>>>>
        ELSE view = t.pre

\* delete() is suspended on its list call: nothing is selected and the snapshot
\* still contains the deleted note.
C10_Witness ==
    \E t \in BagToSet(tasks) :
        /\ t.op = "delete" /\ t.req = "list"
        /\ selectedId = None
        /\ HasId(notes, t.id[1])

-----------------------------------------------------------------------------
(* C16 *)

\* The list requests that the step issues.
ListRequestsIssued ==
    {t \in BagToSet(tasks') : t.req = "list" /\ CopiesIn(t, tasks') > CopiesIn(t, tasks)}

\* C16: onTagClick changes only the active tag and the search input only the
\* search text: they issue no request and change neither the snapshot, the
\* selection, the buffer, the error nor the loading flag.  A list request is issued
\* only by a run of refresh(), called by onSearch or started by the success of the
\* call of create, save or delete, and it carries the search text of that moment.
C16_FiltersOnlyFilter ==
    [][/\ last'.op = "setActiveTag" =>
             UNCHANGED <<notes, selectedId, editTitle, editContent, editTags, error,
                         loading, saving, deleting, search, tasks, db, clock>>
       /\ last'.op = "setSearch" =>
             UNCHANGED <<notes, selectedId, editTitle, editContent, editTags, error,
                         loading, saving, deleting, activeTag, tasks, db, clock>>
       /\ \A t \in ListRequestsIssued :
             /\ t.q = search
             /\ \/ last' = Event("refresh", "list", "start", None)
                \/ last'.req \in {"create", "update", "delete"} /\ last'.out = "ok"]_vars

\* A tag filter is set, and a search text was typed while a list request that
\* carries the former text is in flight.
C16_Witness ==
    /\ last.op = "setSearch"
    /\ activeTag # None
    /\ search # ""
    /\ \E t \in BagToSet(tasks) : t.req = "list" /\ t.q # search

-----------------------------------------------------------------------------
(* C17 *)

\* The endpoint is not configured: absent, empty or blank.
Unconfigured == configured = None \/ Trim(configured[1]) = <<>>

\* C17: when the configured endpoint is absent, empty or blank, the client's
\* requests go to the base /api and a list call the remote answers with success
\* is returned to refresh(): the list request is issued (its URL does not make the
\* client throw), and once it is answered the error field is empty and the
\* snapshot is the sorted list of the remote.
C17_DefaultBaseServes ==
    Unconfigured =>
        /\ GetApiBase = DefaultBase
        /\ last.req = "list" => last.out \in {"start", "ok"} \cup Failures
        /\ (last.req = "list" /\ last.out \notin {"start"} \cup Failures) =>
              /\ error = None
              /\ notes = SortNotes(RemoteList(search))

-----------------------------------------------------------------------------
(* C11 *)

\* C11: save() and delete() invoked while no note is selected, and delete() whose
\* confirmation is declined, issue no remote request and change no field of the
\* view state: snapshot, selection, buffer, error, loading, saving, deleting,
\* search text and active tag.
C11_GuardedHandlersChangeNothing ==
    [][(last'.op \in {"save", "delete"} /\ last'.req = "-") =>
          UNCHANGED <<notes, selectedId, editTitle, editContent, editTags, error,
                      loading, saving, deleting, search, activeTag, tasks, db, clock>>]_vars

\* delete() was declined while a note with an edited buffer was selected, an
\* earlier error was shown and a filter was set.
C11_Witness ==
    /\ last = Event("delete", "-", "-", None)
    /\ selectedId # None
    /\ HasId(notes, selectedId[1])
    /\ Buffer # BufferOf(Find(notes, selectedId[1])[1])
    /\ error # None

-----------------------------------------------------------------------------
(* C12 *)

\* The UTF-16 code unit of a character.
CodeUnit(c) ==
    CASE c = " " -> 32
      [] c = "0" -> 48 [] c = "1" -> 49 [] c = "2" -> 50 [] c = "3" -> 51
      [] c = "4" -> 52 [] c = "5" -> 53 [] c = "6" -> 54 [] c = "7" -> 55
      [] c = "8" -> 56 [] c = "9" -> 57
      [] c = "a" -> 97 [] c = "b" -> 98 [] c = "c" -> 99

\* x is before y as raw strings: at the first place where they differ x has the
\* smaller code unit, or x is a proper prefix of y.
RawBefore(x, y) ==
    \E k \in 1..(Len(y)) :
        /\ \A j \in 1..(k - 1) : j <= Len(x) /\ x[j] = y[j]
        /\ k > Len(x) \/ (k - 1 < Len(x) /\ CodeUnit(x[k]) < CodeUnit(y[k]))

\* The effective timestamp of the claim: updated_at, else created_at, else "".
TimestampOf(n) ==
    IF n.updated_at # <<>> THEN n.updated_at ELSE n.created_at

\* The place of the note n in list (ids are distinct).
PlaceIn(list, n) == CHOOSE i \in 1..Len(list) : list[i].id = n.id

-----------------------------------------------------------------------------
(* C13 *)

\* The places around the pieces of s: before its first character, at each comma,
\* and behind its last character.
Cuts(s) == {0, Len(s) + 1} \cup {i \in 1..Len(s) : s[i] = ","}

\* The k-th of them, from the left.
Cut(s, k) == CHOOSE c \in Cuts(s) : Cardinality({d \in Cuts(s) : d < c}) = k - 1

\* The k-th comma-separated piece of s.
Piece(s, k) == SubSeq(s, Cut(s, k) + 1, Cut(s, k + 1) - 1)

\* p without the blanks around it.
Stripped(p) ==
    LET ns == {i \in 1..Len(p) : p[i] # " "}
    IN  IF ns = {} THEN <<>>
        ELSE SubSeq(p, CHOOSE i \in ns : \A j \in ns : i <= j,
                       CHOOSE i \in ns : \A j \in ns : j <= i)

\* The comma-separated pieces of s, stripped, without the empty ones, in order.
PiecesKept(s) ==
    SelectSeq([k \in 1..(Cardinality(Cuts(s)) - 1) |-> Stripped(Piece(s, k))],
              LAMBDA p : p # <<>>)

\* C13: the update call of save() carries the id of the selected note, the title
\* and the content of the buffer, and as tags the comma-separated pieces of the
\* buffer's tag text, each stripped of the blanks around it, the empty ones
\* dropped, in their order; "a, b ,, c" is submitted as a, b, c.
C13_TagsSubmitted ==
    \A t \in BagToSet(tasks) :
        t.req = "update" =>
            /\ t.id = selectedId
            /\ t.data.title = editTitle
            /\ t.data.content = editContent
            /\ t.data.tags = PiecesKept(editTags)
            /\ editTags = <<"a", ",", " ", "b", " ", ",", ",", " ", "c">>
                  => t.data.tags = << <<"a">>, <<"b">>, <<"c">> >>

\* save() is suspended on its update call, having read "a, b ,, c".
C13_Witness ==
    \E t \in BagToSet(tasks) :
        /\ t.req = "update"
        /\ editTags = <<"a", ",", " ", "b", " ", ",", ",", " ", "c">>
        /\ Len(t.data.tags) = 3
        /\ t.id = selectedId

-----------------------------------------------------------------------------
(* C14 *)

\* The tag list of the note n contains the label t; a note without tags has none.
Carries(n, t) == n.tags # None /\ \E j \in 1..Len(n.tags[1]) : n.tags[1][j] = t

-----------------------------------------------------------------------------
(* C15 *)

\* C15: tags is sorted and free of duplicates, and its entries are exactly the
\* labels that occur in the tag list of some note of the snapshot; so notes without
\* tags add nothing, and a snapshot without labels gives the empty sequence.
C15_TagUniverse ==
    /\ \A i, j \in 1..Len(Tags) : i < j => RawBefore(Tags[i], Tags[j])
    /\ {Tags[i] : i \in 1..Len(Tags)}
          = {t \in UNION {{OrNil(notes[i].tags)[j] : j \in 1..Len(OrNil(notes[i].tags))} :
                           i \in 1..Len(notes)} :
               \E i \in 1..Len(notes) : Carries(notes[i], t)}
    /\ (\A i \in 1..Len(notes) : OrNil(notes[i].tags) = <<>>) => Tags = <<>>

\* The snapshot meets "b" before "a", meets "a" twice, and holds a note without
\* tags: tags is "a", "b".
C15_Witness ==
    /\ Len(notes) = 3
    /\ notes[1].tags = Some(<< <<"b">>, <<"a">> >>)
    /\ notes[2].tags = None
    /\ notes[3].tags = Some(<< <<"a">> >>)
    /\ Tags = << <<"a">>, <<"b">> >>

-----------------------------------------------------------------------------
(* C18 *)

\* C18: nothing cancels a suspended handler and nothing keeps the user from
\* acting meanwhile.  A handler leaves its remote call only by the answer to it;
\* and when the list call of a refresh (alone, or inside save or delete) succeeds,
\* the continuation loads the buffer from the note then selected, whatever was
\* typed or selected since the handler was invoked.
C18_ContinuationOverwritesEdit ==
    [][/\ \A t \in BagToSet(tasks) :
             CopiesIn(t, tasks') < CopiesIn(t, tasks) =>
                /\ last'.op = t.op /\ last'.req = t.req
                /\ last'.out \in {"ok"} \cup Failures
       /\ (last'.req = "list" /\ last'.out = "ok" /\ last'.op # "create"
             /\ selectedId' # None) =>
             Buffer' = BufferOf(Find(notes', selectedId'[1])[1])]_vars

\* The list call of a refresh or a save is in flight, the user has edited the
\* buffer since that handler was invoked, and the answer, which can come now,
\* replaces the edit by the fields of the selected note.
C18_Witness ==
    \E t \in BagToSet(tasks) :
        /\ t.req = "list" /\ t.op \in {"refresh", "save"}
        /\ races > 0
        /\ last.op = "type"
        /\ selectedId # None
        /\ <<editTitle, editContent, editTags>> # <<t.pre[3], t.pre[4], t.pre[5]>>
        /\ ENABLED (ListOk /\ selectedId' = selectedId /\ Buffer' # Buffer
                      /\ Buffer' = BufferOf(Find(notes', selectedId[1])[1]))

-----------------------------------------------------------------------------
(* C19 *)

\* The mutation request of a handler.
MutationOf(op) ==
    CASE op = "create" -> "create" [] op = "save" -> "update" [] op = "delete" -> "delete"

\* C19: create(), save() and delete() issue the list request of their refresh only
\* in the step in which their own create, update or delete request is answered
\* with success; when that request fails the handler ends without a list
\* request, and a failed delete leaves the selection and the buffer as they are.
C19_RefreshAfterSuccessOnly ==
    [][/\ \A t \in ListRequestsIssued :
             t.op \in {"create", "save", "delete"} =>
                /\ last' = Event(t.op, MutationOf(t.op), "ok", t.id)
                /\ \E u \in BagToSet(tasks) :
                      /\ u.op = t.op /\ u.req = MutationOf(t.op)
                      /\ tasks' = Remove(u) (+) SetToBag({t})
       /\ (last'.req \in {"create", "update", "delete"} /\ Failed(last')) =>
             /\ ListRequestsIssued = {}
             /\ \E u \in BagToSet(tasks) : u.req = last'.req /\ tasks' = Remove(u)
             /\ last'.req = "delete" => (selectedId' = selectedId /\ Buffer' = Buffer)]_vars

\* A delete call failed: the note is still selected and the buffer still shows it,
\* and no request is in flight.
C19_Witness ==
    /\ last.op = "delete" /\ last.req = "delete" /\ Failed(last)
    /\ selectedId = last.id
    /\ HasId(notes, selectedId[1])
    /\ Buffer = BufferOf(Find(notes, selectedId[1])[1])
    /\ tasks = EmptyBag
    /\ ~deleting

-----------------------------------------------------------------------------
(* C20 *)

\* C20: refreshes overlap freely.  Each list request carries the search text
\* that is current when its refresh starts; each list response that is processed
\* installs its own result as the snapshot, whatever the search text has become
\* and whichever refresh started last; and every completion of a list call,
\* the first included, sets loading to false although others are in flight.
C20_OverlappingRefreshes ==
    [][/\ \A t \in ListRequestsIssued : t.q = search
       /\ (last'.req = "list" /\ last'.out = "ok") =>
             \E t \in BagToSet(tasks) :
                /\ t.req = "list" /\ tasks' = Remove(t)
                /\ notes' = SortNotes(RemoteList(t.q))
       /\ (last'.req = "list" /\ (last'.out = "ok" \/ Failed(last'))) => ~loading']_vars

\* Two refreshes overlapped and the one started last has completed first: loading
\* is false, the snapshot is the result for the current search text, the refresh
\* started first is still in flight with the older text, and its answer, which
\* can come now, leaves another snapshot, that of the older text.
C20_Witness ==
    /\ ~loading
    /\ last = Event("refresh", "list", "ok", None)
    /\ races > 0
    /\ notes = SortNotes(RemoteList(search))
    /\ \E t \in BagToSet(tasks) :
          /\ t.op = "refresh" /\ t.req = "list" /\ t.q # search
          /\ tasks = SetToBag({t})
          /\ SortNotes(RemoteList(t.q)) # notes
          /\ ENABLED (ListOk /\ tasks' = EmptyBag /\ notes' # notes
                        /\ notes' = SortNotes(RemoteList(t.q)) /\ search' # t.q)

====
